---- MODULE Spec2Model ----
(***************************************************************************)
(* freq-pick: the picking session of pick_freqs_matplotlib (core.py) and   *)
(* the controller run_picker (mpl_ui.py), as a state machine.              *)
(*                                                                         *)
(* Arrays are functions over 0..n-1, so indices are the 0-based indices    *)
(* of the Python code.  An optional value is None (<<>>) or <<v>>.         *)
(* Magnitudes are integers: a linear magnitude is -1, 0 or a power of ten, *)
(* a dB magnitude a multiple of 20, the values on which 20*log10 and       *)
(* 10^(x/20) are exact.                                                    *)
(***************************************************************************)
EXTENDS Integers, Sequences, FiniteSets, TLC

\* ---------------------------------------------------------------- bounds
NumSamples == 3
MaxExp == 1
MaxPointer == 2

\* ------------------------------------------------------ program constants
FloorExp == 12
DbPerDecade == 20

None == <<>>

Size(a) == Cardinality(DOMAIN a)

EmptyArray == [i \in {} |-> 0]

Slice(a, lo, hi) == [i \in 0..(hi - lo - 1) |-> a[lo + i]]

\* The elements of a finite set of integers, ascending, as an array.
SortedArray(S) ==
    [k \in 0..(Cardinality(S) - 1) |->
        CHOOSE x \in S : Cardinality({y \in S : y < x}) = k]

RECURSIVE Pow10(_)
Pow10(e) == IF e <= 0 THEN 1 ELSE 10 * Pow10(e - 1)

\* log10 of a power of ten 10^0 .. 10^MaxExp.
Log10(v) == CHOOSE e \in 0..MaxExp : Pow10(e) = v

SetMax(S) == CHOOSE x \in S : \A y \in S : y <= x

\* ------------------------------------------------------------- inputs
DISPLAY_DOMAINS == {"linear", "dB"}

PICKER_KEYMAP ==
    [commit |-> "q", cancel |-> "escape", clear |-> "c", help |-> "h",
     delete_nearest |-> "x", toggle_scale |-> "l"]

\* The seven-binding map run_picker is called with in
\* tests/test_context_overlays.py.
FULL_KEYMAP ==
    [commit |-> "q", cancel |-> "escape", clear |-> "c", help |-> "h",
     delete_nearest |-> "x", toggle_scale |-> "l", toggle_overlays |-> "o"]

Keymaps == {PICKER_KEYMAP, FULL_KEYMAP}

\* Keys the canvas can report: the bound ones and an unbound one.
KeyInputs == {"q", "escape", "c", "h", "x", "l", "o", "z"}

Modifier == "shift"

\* event.key of a mouse event: None, or the "+"-separated parts of the string.
EventKeys == {None, <<"shift">>, <<"ctrl", "shift">>, <<"ctrl">>}

\* Strictly increasing frequencies 1, 2, 3, ...: the frequency of a sample
\* differs from its index.
FHz == [i \in 0..(NumSamples - 1) |-> i + 1]

Peak == Pow10(MaxExp)
PeakDb == DbPerDecade * MaxExp

\* Linear magnitudes: two values below the dB floor and a tie of the maximum;
\* a tie of the maximum at the lowest indices; a single peak; no positive value.
LinearMags ==
    {[i \in 0..(NumSamples - 1) |-> IF i = 0 THEN -1 ELSE IF i = 1 THEN 0 ELSE Peak],
     [i \in 0..(NumSamples - 1) |-> IF i < 2 THEN Peak ELSE 0],
     [i \in 0..(NumSamples - 1) |-> IF i = 1 THEN Peak ELSE 1],
     [i \in 0..(NumSamples - 1) |-> IF i = 1 THEN -1 ELSE 0]}

\* dB magnitudes: a single peak; a tie of the maximum at the lowest indices.
DbMags ==
    {[i \in 0..(NumSamples - 1) |-> IF i = 1 THEN PeakDb ELSE 0],
     [i \in 0..(NumSamples - 1) |-> IF i < 2 THEN PeakDb ELSE 0]}

\* The objects of the calling program that a Spectrum's meta refers to: the
\* dict itself, a list and a string held as its values, a string to put into
\* it.  A dict maps its keys to references.
InitialHeap ==
    [ref \in {"dict0", "list0", "str0", "str1"} |->
        CASE ref = "dict0" -> [key \in {"tags", "source"} |->
                                 IF key = "tags" THEN "list0" ELSE "str0"]
          [] ref = "list0" -> <<"a">>
          [] ref = "str0" -> "test"
          [] OTHER -> "other"]

\* The linear spectra carry metadata, the dB spectra none.
Spectra ==
    [f_hz : {FHz}, mag : LinearMags, display_domain : {"linear"},
     meta : {<<"dict0">>}]
    \cup [f_hz : {FHz}, mag : DbMags, display_domain : {"dB"}, meta : {None}]

\* The spectra run_picker is called with directly.
DirectSpectra ==
    {s \in Spectra : s.mag[0] > 0 /\ s.mag[0] < s.mag[1]}
    \cup {s \in Spectra : s.display_domain = "dB" /\ s.mag[0] < s.mag[1]}

FloorDb == 0 - DbPerDecade * FloorExp

XCoords == {FHz[i] : i \in DOMAIN FHz}
YCoords == {FloorDb, 0, Peak}
Corners == XCoords \X YCoords

PointerXs == 1..MaxPointer

\* -------------------------------------------------------------- state
VARIABLES
    pc,               \* "idle", "show" (inside plt.show), "returned"
    entry,            \* "pick_freqs_matplotlib" or "run_picker"
    spectrum,         \* the Spectrum handed to pick_freqs_matplotlib
    artifact_dir,     \* None or <<dir>>
    f_hz, mag,        \* run_picker's arrays: the view
    display_domain,
    original_offset,
    picker_keymap,
    context,          \* None or <<the set of series the OverlayContext has>>
    overlays_enabled,
    selected_idx,
    current_domain,
    current_mag,
    overlays_visible,
    state,            \* [done, cancelled, last_mouse_x]
    line_artists,     \* frequencies of the selection markers drawn
    label_artists,    \* frequencies the markers' labels are drawn at
    fig_open,
    outcome,          \* what the call returned or raised
    selection,        \* None or <<Selection>>
    artifacts,        \* the artifact files written
    payload,          \* None or <<the document written to the JSON artifact>>
    settings,         \* None or <<the settings dict of pick_freqs_matplotlib>>
    heap,             \* the caller's objects reachable from Spectrum.meta
    processed,        \* history: the Commit and Cancel key presses dispatched
    call              \* None or <<a call of a library function: arguments, result>>

inputs == <<entry, spectrum, artifact_dir, f_hz, mag, display_domain,
            original_offset, picker_keymap, context, settings, heap>>
controller == <<overlays_enabled, selected_idx, current_domain, current_mag,
                overlays_visible, state, line_artists, label_artists,
                fig_open>>
outputs == <<outcome, selection, artifacts, payload>>
vars == <<pc, inputs, controller, outputs, processed, call>>

\* ------------------------------------------------------ core.py functions
Abs(x) == IF x < 0 THEN 0 - x ELSE x

\* np.searchsorted on a sorted array: the number of elements before the
\* insertion point.
searchsorted(a, v, side) ==
    IF side = "left"
    THEN Cardinality({i \in DOMAIN a : a[i] < v})
    ELSE Cardinality({i \in DOMAIN a : a[i] <= v})

\* Mutant: the lower bound is searched with side="right".
crop_to_window_lower_right(f, m, xlim) ==
    LET idx_lo == searchsorted(f, xlim[1], "right")
        idx_hi == searchsorted(f, xlim[2], "right")
    IN  IF xlim[1] >= xlim[2]
        THEN [error |-> "ValueError: xlim must be (min, max) with min < max."]
        ELSE IF idx_lo = idx_hi
        THEN [error |-> "ValueError: xlim does not include any spectrum samples."]
        ELSE [error |-> "", f_hz |-> Slice(f, idx_lo, idx_hi),
              mag |-> Slice(m, idx_lo, idx_hi), offset |-> idx_lo]

crop_to_window(f, m, xlim) ==
    LET fmin == xlim[1]
        fmax == xlim[2]
        idx_lo == searchsorted(f, fmin, "left")
        idx_hi == searchsorted(f, fmax, "right")
    IN  IF fmin >= fmax
        THEN [error |-> "ValueError: xlim must be (min, max) with min < max."]
        ELSE IF idx_lo = idx_hi
        THEN [error |-> "ValueError: xlim does not include any spectrum samples."]
        ELSE [error |-> "", f_hz |-> Slice(f, idx_lo, idx_hi),
              mag |-> Slice(m, idx_lo, idx_hi), offset |-> idx_lo]

\* Mutant: the index is added and never removed.
toggle_index_add_only(selected, index) == selected \cup {index}

toggle_index(selected, index) ==
    IF index \in selected THEN selected \ {index} ELSE selected \cup {index}

\* np.all(np.diff(a) > 0)
strictly_increasing(a) == \A i \in 0..(Size(a) - 2) : a[i + 1] - a[i] > 0

\* Mutant: equal neighbours pass.
validate_spectrum_non_decreasing(s) ==
    IF s.display_domain \notin DISPLAY_DOMAINS
    THEN [error |-> "ValueError: display_domain must be 'linear' or 'dB'."]
    ELSE IF ~s.f_hz.ndarray
    THEN [error |-> "ValueError: f_hz must be a numpy.ndarray."]
    ELSE IF ~s.mag.ndarray
    THEN [error |-> "ValueError: mag must be a numpy.ndarray."]
    ELSE IF s.f_hz.ndim # 1 \/ s.mag.ndim # 1
    THEN [error |-> "ValueError: f_hz and mag must be 1D arrays."]
    ELSE IF Size(s.f_hz.values) = 0
    THEN [error |-> "ValueError: f_hz and mag must be non-empty."]
    ELSE IF Size(s.f_hz.values) # Size(s.mag.values)
    THEN [error |-> "ValueError: f_hz and mag must be the same length."]
    ELSE IF s.f_hz.nonfinite # {}
    THEN [error |-> "ValueError: f_hz must contain only finite values."]
    ELSE IF s.mag.nonfinite # {}
    THEN [error |-> "ValueError: mag must contain only finite values."]
    ELSE IF \E i \in 0..(Size(s.f_hz.values) - 2) :
                s.f_hz.values[i + 1] - s.f_hz.values[i] < 0
    THEN [error |-> "ValueError: f_hz must be strictly increasing."]
    ELSE [error |-> ""]

\* validate_spectrum on the arguments of Spectrum(...).  An argument is
\* [ndarray: whether it is a numpy.ndarray, ndim, values: its elements in
\* order, nonfinite: the indices of its nan and inf elements].
validate_spectrum(s) ==
    IF s.display_domain \notin DISPLAY_DOMAINS
    THEN [error |-> "ValueError: display_domain must be 'linear' or 'dB'."]
    ELSE IF ~s.f_hz.ndarray
    THEN [error |-> "ValueError: f_hz must be a numpy.ndarray."]
    ELSE IF ~s.mag.ndarray
    THEN [error |-> "ValueError: mag must be a numpy.ndarray."]
    ELSE IF s.f_hz.ndim # 1 \/ s.mag.ndim # 1
    THEN [error |-> "ValueError: f_hz and mag must be 1D arrays."]
    ELSE IF Size(s.f_hz.values) = 0
    THEN [error |-> "ValueError: f_hz and mag must be non-empty."]
    ELSE IF Size(s.f_hz.values) # Size(s.mag.values)
    THEN [error |-> "ValueError: f_hz and mag must be the same length."]
    ELSE IF s.f_hz.nonfinite # {}
    THEN [error |-> "ValueError: f_hz must contain only finite values."]
    ELSE IF s.mag.nonfinite # {}
    THEN [error |-> "ValueError: mag must contain only finite values."]
    ELSE IF ~strictly_increasing(s.f_hz.values)
    THEN [error |-> "ValueError: f_hz must be strictly increasing."]
    ELSE [error |-> ""]

\* np.diff
diff(a) == [i \in 0..(Size(a) - 2) |-> a[i + 1] - a[i]]

\* Mutant: the lower of the two middle values.
median_lower_middle(a) ==
    LET n == Size(a)
        sorted == [k \in 0..(n - 1) |->
            CHOOSE v \in {a[i] : i \in DOMAIN a} :
                /\ Cardinality({i \in DOMAIN a : a[i] < v}) <= k
                /\ k < Cardinality({i \in DOMAIN a : a[i] <= v})]
    IN  sorted[(n - 1) \div 2]

\* np.median: the middle element of the sorted values, or the mean of the two
\* middle ones; the arrays of the model have two middle values of even sum.
median(a) ==
    LET n == Size(a)
        sorted == [k \in 0..(n - 1) |->
            CHOOSE v \in {a[i] : i \in DOMAIN a} :
                /\ Cardinality({i \in DOMAIN a : a[i] < v}) <= k
                /\ k < Cardinality({i \in DOMAIN a : a[i] <= v})]
    IN  IF n % 2 = 1
        THEN sorted[n \div 2]
        ELSE (sorted[n \div 2 - 1] + sorted[n \div 2]) \div 2

\* warning: the largest deviation from the median exceeds the tolerance, which
\* is below one unit for the frequencies of the model.
compute_df_hz(f) ==
    LET diffs == diff(f)
    IN  IF Size(diffs) = 0
        THEN [error |-> "ValueError: Cannot compute df_hz from a single sample."]
        ELSE IF median(diffs) <= 0
        THEN [error |-> "ValueError: Computed df_hz must be positive."]
        ELSE [error |-> "", df_hz |-> median(diffs),
              warning |-> \E i \in DOMAIN diffs : diffs[i] # median(diffs)]

\* Mutant: the tolerance of the user is returned as it is.
effective_snap_hz_user_only(user_snap_hz, df_hz) ==
    IF user_snap_hz <= 0
    THEN [error |-> "ValueError: user_snap_hz must be positive."]
    ELSE [error |-> "", snap_hz |-> user_snap_hz]

\* Mutant: two bins instead of three.
effective_snap_hz_two_bins(user_snap_hz, df_hz) ==
    IF user_snap_hz <= 0
    THEN [error |-> "ValueError: user_snap_hz must be positive."]
    ELSE [error |-> "",
          snap_hz |-> IF user_snap_hz >= 2 * df_hz THEN user_snap_hz ELSE 2 * df_hz]

effective_snap_hz(user_snap_hz, df_hz) ==
    IF user_snap_hz <= 0
    THEN [error |-> "ValueError: user_snap_hz must be positive."]
    ELSE [error |-> "",
          snap_hz |-> IF user_snap_hz >= 3 * df_hz THEN user_snap_hz ELSE 3 * df_hz]

\* Mutant: the indices are sorted by descending frequency.
sorted_by_freq_descending(f, selected) ==
    [k \in 0..(Cardinality(selected) - 1) |->
        CHOOSE x \in selected :
            Cardinality({y \in selected : f[y] > f[x]}) = k]

\* sorted(selected_idx, key=f_hz[idx]): the frequencies are strictly
\* increasing, so the order by frequency is the order by index.
sorted_by_freq(f, selected) ==
    [k \in 0..(Cardinality(selected) - 1) |->
        CHOOSE x \in selected :
            Cardinality({y \in selected : f[y] < f[x]}) = k]

\* dict(spectrum.meta): a new dict with the keys and the references of the
\* source dict.
_build_selection(spec, selected, settings_dict) ==
    LET sorted_idx == sorted_by_freq(spec.f_hz, selected)
    IN  [selected_hz |-> [k \in DOMAIN sorted_idx |-> spec.f_hz[sorted_idx[k]]],
         selected_idx |-> sorted_idx,
         settings |-> settings_dict,
         meta |-> IF spec.meta # None
                  THEN heap[spec.meta[1]]
                  ELSE [key \in {} |-> ""]]

\* ---------------------------------------------------- mpl_ui.py functions
\* Mutant: any key held during the drag counts as the modifier.
_event_has_modifier_any_key(event_key, modifier) == event_key # None

_event_has_modifier(event_key, modifier) ==
    IF event_key = None
    THEN FALSE
    ELSE \E i \in 1..Len(event_key) : event_key[i] = modifier

\* The view-local indices of the selected indices inside the view (a list in
\* the order the set iterates; the order matters only to min() below).
_indices_in_view(selected, view_offset, view_size) ==
    {idx - view_offset : idx \in {i \in selected :
        0 <= i - view_offset /\ i - view_offset < view_size}}

\* 20*log10(max(v, max*1e-12) / max): an integer v <= 0 lies below the floor
\* max*1e-12, a power of ten v >= 1 above it.
linear_to_db(linear_mag, max_lin) ==
    LET m == IF max_lin <= 0 THEN 1 ELSE max_lin
    IN  [i \in DOMAIN linear_mag |->
            IF linear_mag[i] <= 0
            THEN FloorDb
            ELSE DbPerDecade * (Log10(linear_mag[i]) - Log10(m))]

\* max * 10^(dB/20), for dB a non-negative multiple of 20.
db_to_linear(db_mag, max_lin) ==
    LET m == IF max_lin <= 0 THEN 1 ELSE max_lin
    IN  [i \in DOMAIN db_mag |-> m * Pow10(db_mag[i] \div DbPerDecade)]

max_linear ==
    LET m == IF Size(mag) > 0 THEN SetMax({mag[i] : i \in DOMAIN mag}) ELSE 1
    IN  IF m <= 0 THEN 1 ELSE m

convert_mag(values, domain) ==
    IF domain = "linear"
    THEN IF display_domain = "linear" THEN values ELSE db_to_linear(values, 1)
    ELSE IF display_domain = "linear"
         THEN linear_to_db(values, max_linear)
         ELSE values

display_mag_for(domain) == convert_mag(mag, domain)

\* Mutant: the last index of the maximum.
argmax_last(a) ==
    CHOOSE i \in DOMAIN a :
        /\ \A j \in DOMAIN a : a[j] <= a[i]
        /\ \A j \in DOMAIN a : j > i => a[j] < a[i]

\* np.argmax: the first index of the maximum.
argmax(a) ==
    CHOOSE i \in DOMAIN a :
        /\ \A j \in DOMAIN a : a[j] <= a[i]
        /\ \A j \in DOMAIN a : j < i => a[j] < a[i]

\* The controller's closure variables as one record.
Ctl ==
    [selected_idx |-> selected_idx, current_domain |-> current_domain,
     current_mag |-> current_mag, overlays_visible |-> overlays_visible,
     state |-> state, line_artists |-> line_artists,
     label_artists |-> label_artists, fig_open |-> fig_open]

update_selection_overlays(c) ==
    LET view_indices ==
            SortedArray(_indices_in_view(c.selected_idx, original_offset, Size(f_hz)))
    IN  [c EXCEPT !.line_artists =
                        [k \in DOMAIN view_indices |-> f_hz[view_indices[k]]],
                  !.label_artists =
                        [k \in DOMAIN view_indices |-> f_hz[view_indices[k]]]]

\* Mutant: the view-local index is toggled without the offset.
toggle_selected_no_offset(c, view_idx) ==
    update_selection_overlays(
        [c EXCEPT !.selected_idx = toggle_index(@, view_idx)])

\* Mutant: the index is selected, never deselected.
toggle_selected_select_only(c, view_idx) ==
    update_selection_overlays(
        [c EXCEPT !.selected_idx = @ \cup {view_idx + original_offset}])

toggle_selected(c, view_idx) ==
    update_selection_overlays(
        [c EXCEPT !.selected_idx = toggle_index(@, view_idx + original_offset)])

MinOf(a, b) == IF a <= b THEN a ELSE b
MaxOf(a, b) == IF a <= b THEN b ELSE a

\* e = [click_key, release_key, click, release]; a corner is None (outside
\* the axes: xdata/ydata are None) or <<xdata, ydata>>.
on_select(c, e) ==
    IF ~(_event_has_modifier(e.click_key, Modifier)
         \/ _event_has_modifier(e.release_key, Modifier))
    THEN c
    ELSE IF e.click = None \/ e.release = None
    THEN c
    ELSE
        LET x0 == MinOf(e.click[1], e.release[1])
            x1 == MaxOf(e.click[1], e.release[1])
            y0 == MinOf(e.click[2], e.release[2])
            y1 == MaxOf(e.click[2], e.release[2])
            mask == [i \in DOMAIN f_hz |->
                        /\ f_hz[i] >= x0 /\ f_hz[i] <= x1
                        /\ c.current_mag[i] >= y0 /\ c.current_mag[i] <= y1]
            indices == SortedArray({i \in DOMAIN mask : mask[i]})
            local_mag == [k \in DOMAIN indices |-> c.current_mag[indices[k]]]
        IN  IF \A i \in DOMAIN mask : ~mask[i]
            THEN c
            ELSE toggle_selected(c, indices[argmax(local_mag)])

\* ev = [inaxes, xdata]
on_motion(c, ev) ==
    IF ~ev.inaxes THEN c ELSE [c EXCEPT !.state.last_mouse_x = ev.xdata]

\* The order in which on_key_press compares the key with the bindings.
HandlerOrder ==
    <<"commit", "cancel", "clear", "delete_nearest", "help", "toggle_scale",
      "toggle_overlays">>

\* The branch on_key_press takes: the first binding equal to the key;
\* "KeyError" when a binding looked up on the way is missing; "" when no
\* binding matches.
KeyBranch(key) ==
    LET hits == {i \in 1..Len(HandlerOrder) :
                    \/ HandlerOrder[i] \notin DOMAIN picker_keymap
                    \/ picker_keymap[HandlerOrder[i]] = key}
    IN  IF hits = {}
        THEN ""
        ELSE LET i == CHOOSE h \in hits : \A g \in hits : h <= g
             IN  IF HandlerOrder[i] \in DOMAIN picker_keymap
                 THEN HandlerOrder[i]
                 ELSE "KeyError"

\* Mutant: the signed difference instead of the absolute one.
NearestViews_signed(c) ==
    LET target == c.state.last_mouse_x[1]
        view_indices == _indices_in_view(c.selected_idx, original_offset, Size(f_hz))
    IN  {i \in view_indices : \A j \in view_indices :
            f_hz[i] - target <= f_hz[j] - target}

\* min(view_indices, key=|f_hz[idx] - target|): the first minimum in the
\* list's order, which is the set's iteration order; any minimum.
NearestViews(c) ==
    LET target == c.state.last_mouse_x[1]
        view_indices == _indices_in_view(c.selected_idx, original_offset, Size(f_hz))
    IN  {i \in view_indices : \A j \in view_indices :
            Abs(f_hz[i] - target) <= Abs(f_hz[j] - target)}

\* The branches of on_key_press; each gives the states it can leave the
\* controller in.
key_commit(c) == {[c EXCEPT !.state.done = TRUE, !.fig_open = FALSE]}

key_cancel(c) == {[c EXCEPT !.state.cancelled = TRUE, !.fig_open = FALSE]}

\* Mutant: the markers are redrawn, the set is not emptied.
key_clear_keeps_set(c) == {update_selection_overlays(c)}

\* Mutant: the set is emptied, the markers are not redrawn.
key_clear_no_redraw(c) == {[c EXCEPT !.selected_idx = {}]}

key_clear(c) == {update_selection_overlays([c EXCEPT !.selected_idx = {}])}

key_delete_nearest(c) ==
    IF c.selected_idx = {} \/ c.state.last_mouse_x = None
    THEN {c}
    ELSE IF _indices_in_view(c.selected_idx, original_offset, Size(f_hz)) = {}
    THEN {c}
    ELSE {toggle_selected(c, nearest_view) : nearest_view \in NearestViews(c)}

\* Mutant: the comparison misspells the domain's name.
other_domain_misspelt(domain) == IF domain = "db" THEN "linear" ELSE "dB"

other_domain(domain) == IF domain = "dB" THEN "linear" ELSE "dB"

\* Mutant: the series on display is converted, not the stored one.
key_toggle_scale_from_displayed(c) ==
    LET domain == other_domain(c.current_domain)
    IN  {update_selection_overlays(
            [c EXCEPT !.current_domain = domain,
                      !.current_mag = convert_mag(c.current_mag, domain)])}

key_toggle_scale(c) ==
    LET domain == other_domain(c.current_domain)
    IN  {update_selection_overlays(
            [c EXCEPT !.current_domain = domain,
                      !.current_mag = display_mag_for(domain)])}

\* Mutant: the flag is flipped whether or not a series is bound.
key_toggle_overlays_unguarded(c) == {[c EXCEPT !.overlays_visible = ~@]}

\* Mutant: hiding or showing the overlays starts the selection afresh.
key_toggle_overlays_resets(c) ==
    IF overlays_enabled
    THEN {[c EXCEPT !.overlays_visible = ~@, !.selected_idx = {}]}
    ELSE {c}

key_toggle_overlays(c) ==
    IF overlays_enabled THEN {[c EXCEPT !.overlays_visible = ~@]} ELSE {c}

\* The help branch shows or hides help_text and redraws: of the figure's
\* artists the model holds the selection markers only.
key_help(c) == {c}

on_key_press(c, key) ==
    LET branch == KeyBranch(key)
    IN  CASE branch = "commit" -> key_commit(c)
          [] branch = "cancel" -> key_cancel(c)
          [] branch = "clear" -> key_clear(c)
          [] branch = "delete_nearest" -> key_delete_nearest(c)
          [] branch = "help" -> key_help(c)
          [] branch = "toggle_scale" -> key_toggle_scale(c)
          [] branch = "toggle_overlays" -> key_toggle_overlays(c)
          [] OTHER -> {c}

\* ------------------------------------------- core.py library functions
\* np.argmin: the first index of the minimum.
argmin(a) ==
    CHOOSE i \in DOMAIN a :
        /\ \A j \in DOMAIN a : a[i] <= a[j]
        /\ \A j \in DOMAIN a : j < i => a[i] < a[j]

\* Mutant: the index into the window's slice is returned as it is.
snap_index_window_local(f, m, target_hz, window_hz) ==
    LET idx_lo == searchsorted(f, target_hz - window_hz, "left")
        idx_hi == searchsorted(f, target_hz + window_hz, "right")
    IN  IF window_hz <= 0
        THEN [error |-> "ValueError: window_hz must be positive."]
        ELSE IF idx_lo = idx_hi
        THEN [error |-> "",
              index |-> argmin([i \in DOMAIN f |-> Abs(f[i] - target_hz)])]
        ELSE [error |-> "", index |-> argmax(Slice(m, idx_lo, idx_hi))]

\* Mutant: an empty window gives the insertion point.
snap_index_insertion_point(f, m, target_hz, window_hz) ==
    LET idx_lo == searchsorted(f, target_hz - window_hz, "left")
        idx_hi == searchsorted(f, target_hz + window_hz, "right")
    IN  IF window_hz <= 0
        THEN [error |-> "ValueError: window_hz must be positive."]
        ELSE IF idx_lo = idx_hi
        THEN [error |-> "", index |-> idx_lo]
        ELSE [error |-> "", index |-> argmax(Slice(m, idx_lo, idx_hi)) + idx_lo]

snap_index(f, m, target_hz, window_hz) ==
    LET low == target_hz - window_hz
        high == target_hz + window_hz
        idx_lo == searchsorted(f, low, "left")
        idx_hi == searchsorted(f, high, "right")
    IN  IF window_hz <= 0
        THEN [error |-> "ValueError: window_hz must be positive."]
        ELSE IF idx_lo = idx_hi
        THEN [error |-> "",
              index |-> argmin([i \in DOMAIN f |-> Abs(f[i] - target_hz)])]
        ELSE [error |-> "", index |-> argmax(Slice(m, idx_lo, idx_hi)) + idx_lo]

\* has_any of OverlayContext: whether some series is present.
has_any(ctx) == ctx # {}

\* The series an OverlayContext may carry, in the order they are listed.
OverlaySeries == <<"mean", "median", "p10", "p25", "p75", "p90">>

\* Mutant: the two lengths change places in the error.
validate_context_lengths_swapped(f, ctx) ==
    IF ctx = None
    THEN [error |-> "", series |-> "", expected |-> 0, actual |-> 0, warning |-> FALSE]
    ELSE LET present == DOMAIN ctx[1]
             bad == {k \in DOMAIN OverlaySeries :
                        /\ OverlaySeries[k] \in present
                        /\ Size(ctx[1][OverlaySeries[k]]) # Size(f)}
         IN  IF present = {}
             THEN [error |-> "", series |-> "", expected |-> 0, actual |-> 0,
                   warning |-> TRUE]
             ELSE IF bad = {}
             THEN [error |-> "", series |-> "", expected |-> 0, actual |-> 0,
                   warning |-> FALSE]
             ELSE LET name == OverlaySeries[CHOOSE k \in bad : \A j \in bad : k <= j]
                  IN  [error |-> "OverlayLengthMismatch", series |-> name,
                       expected |-> Size(ctx[1][name]), actual |-> Size(f),
                       warning |-> FALSE]

\* validate_context(f_hz, context).  A context is None or <<series>>, series
\* a function from the names of the present series to their arrays.  The
\* result carries the error (none: ""), the series, expected and actual
\* length it names, and whether the advisory was emitted.
validate_context(f, ctx) ==
    IF ctx = None
    THEN [error |-> "", series |-> "", expected |-> 0, actual |-> 0, warning |-> FALSE]
    ELSE LET present == DOMAIN ctx[1]
             bad == {k \in DOMAIN OverlaySeries :
                        /\ OverlaySeries[k] \in present
                        /\ Size(ctx[1][OverlaySeries[k]]) # Size(f)}
         IN  IF present = {}
             THEN [error |-> "", series |-> "", expected |-> 0, actual |-> 0,
                   warning |-> TRUE]
             ELSE IF bad = {}
             THEN [error |-> "", series |-> "", expected |-> 0, actual |-> 0,
                   warning |-> FALSE]
             ELSE LET name == OverlaySeries[CHOOSE k \in bad : \A j \in bad : k <= j]
                  IN  [error |-> "OverlayLengthMismatch", series |-> name,
                       expected |-> Size(f), actual |-> Size(ctx[1][name]),
                       warning |-> FALSE]

\* --------------------------------------------------------------- actions
Init ==
    /\ pc = "idle"
    /\ entry = ""
    /\ spectrum = None
    /\ artifact_dir = None
    /\ f_hz = EmptyArray
    /\ mag = EmptyArray
    /\ display_domain = ""
    /\ original_offset = 0
    /\ picker_keymap = PICKER_KEYMAP
    /\ context = None
    /\ overlays_enabled = FALSE
    /\ selected_idx = {}
    /\ current_domain = ""
    /\ current_mag = EmptyArray
    /\ overlays_visible = FALSE
    /\ state = [done |-> FALSE, cancelled |-> FALSE, last_mouse_x |-> None]
    /\ line_artists = EmptyArray
    /\ label_artists = EmptyArray
    /\ fig_open = FALSE
    /\ outcome = ""
    /\ selection = None
    /\ artifacts = {}
    /\ payload = None
    /\ settings = None
    /\ heap = InitialHeap
    /\ processed = {}
    /\ call = None

Raise(error) ==
    /\ pc' = "returned"
    /\ outcome' = error
    /\ UNCHANGED <<selection, artifacts, payload>>

\* xlim: none; a window from the second sample on; min >= max; a window past
\* the last sample.
XlimInputs ==
    {None, <<2, FHz[NumSamples - 1]>>, <<2, 2>>,
     <<FHz[NumSamples - 1] + 1, FHz[NumSamples - 1] + 2>>}

\* artifact_dir and artifact_stem: both given, as scripts/run_picker_demo.py
\* gives them, or one of them missing.
ArtifactInputs ==
    {[dir |-> <<"artifacts">>, stem |-> <<"demo">>],
     [dir |-> <<"artifacts">>, stem |-> None], [dir |-> None, stem |-> <<"demo">>]}

\* user_snap_hz: not positive; below and above three times the bin spacing.
SnapInputs == {0, 1, 4}

\* The calls of pick_freqs_matplotlib: with crop_to_xlim at its default every
\* combination of the inputs with a snap tolerance up to one; without it, the
\* single-peak linear spectrum with the large tolerance, artifacts, and no
\* window or the window from the second sample on.
PickCalls ==
    {a \in [spectrum : Spectra, user_snap_hz : SnapInputs, art : ArtifactInputs,
            xlim : XlimInputs, crop_to_xlim : BOOLEAN, keymap : Keymaps] :
        \/ a.crop_to_xlim /\ a.user_snap_hz <= 1
        \/ /\ ~a.crop_to_xlim
           /\ a.user_snap_hz > 1
           /\ a.spectrum.display_domain = "linear"
           /\ a.spectrum.mag[0] > 0 /\ a.spectrum.mag[0] < a.spectrum.mag[1]
           /\ a.art.dir # None /\ a.art.stem # None
           /\ a.xlim = None \/ a.xlim[1] < a.xlim[2]
           /\ a.keymap = FULL_KEYMAP}

\* pick_freqs_matplotlib up to the call of run_picker.  keymap is the value of
\* the module attribute PICKER_KEYMAP at the call: as core.py defines it, or
\* completed by the embedding program with the binding run_picker looks up.
PickFreqsMatplotlib(spec, user_snap_hz, art, xlim, crop_to_xlim, keymap) ==
    /\ pc = "idle"
    /\ entry' = "pick_freqs_matplotlib"
    /\ spectrum' = <<spec>>
    /\ UNCHANGED <<context, heap, controller, processed, call>>
    /\ IF (art.dir # None /\ art.stem = None) \/ (art.stem # None /\ art.dir = None)
             \/ user_snap_hz <= 0 \/ compute_df_hz(spec.f_hz).error # ""
       THEN /\ Raise("ValueError")
            /\ UNCHANGED <<artifact_dir, f_hz, mag, display_domain,
                           original_offset, picker_keymap, settings>>
       ELSE LET view == IF xlim # None /\ crop_to_xlim
                        THEN crop_to_window(spec.f_hz, spec.mag, xlim)
                        ELSE [error |-> "", f_hz |-> spec.f_hz,
                              mag |-> spec.mag, offset |-> 0]
            IN  IF view.error # ""
                THEN /\ Raise("ValueError")
                     /\ UNCHANGED <<artifact_dir, f_hz, mag, display_domain,
                                    original_offset, picker_keymap, settings>>
                ELSE /\ pc' = "run_picker"
                     /\ artifact_dir' = art.dir
                     /\ f_hz' = view.f_hz
                     /\ mag' = view.mag
                     /\ display_domain' = spec.display_domain
                     /\ original_offset' = view.offset
                     /\ picker_keymap' = keymap
                     /\ settings' = <<
                            [user_snap_hz |-> user_snap_hz,
                             effective_snap_hz |->
                                effective_snap_hz(user_snap_hz,
                                    compute_df_hz(spec.f_hz).df_hz).snap_hz,
                             df_hz |-> compute_df_hz(spec.f_hz).df_hz,
                             modifier |-> Modifier,
                             picker_keymap |-> keymap,
                             xlim |-> xlim,
                             crop_to_xlim |-> crop_to_xlim]>>
                     /\ UNCHANGED outputs

\* run_picker called by a program of its own, as tests/test_context_overlays.py
\* calls it: the whole spectrum, offset 0, an overlay context.
RunPickerDirect(spec, keymap, ctx) ==
    /\ pc = "idle"
    /\ pc' = "run_picker"
    /\ entry' = "run_picker"
    /\ f_hz' = spec.f_hz
    /\ mag' = spec.mag
    /\ display_domain' = spec.display_domain
    /\ original_offset' = 0
    /\ picker_keymap' = keymap
    /\ context' = <<ctx>>
    /\ UNCHANGED <<spectrum, artifact_dir, settings, heap, controller, outputs,
                   processed, call>>

SetCtl(c) ==
    /\ selected_idx' = c.selected_idx
    /\ current_domain' = c.current_domain
    /\ current_mag' = c.current_mag
    /\ overlays_visible' = c.overlays_visible
    /\ state' = c.state
    /\ line_artists' = c.line_artists
    /\ label_artists' = c.label_artists
    /\ fig_open' = c.fig_open

\* run_picker from its first line to plt.show(block=True).
RunPickerStart ==
    /\ pc = "run_picker"
    /\ UNCHANGED <<inputs, processed, call>>
    /\ IF \E i \in 1..Len(HandlerOrder) : HandlerOrder[i] \notin DOMAIN picker_keymap
       THEN /\ Raise("KeyError")
            /\ UNCHANGED controller
       ELSE /\ pc' = "show"
            /\ overlays_enabled' =
                    has_any(IF context # None THEN context[1] ELSE {})
            /\ \E c \in {update_selection_overlays(
                    [selected_idx |-> {}, current_domain |-> display_domain,
                     current_mag |-> display_mag_for(display_domain),
                     overlays_visible |-> overlays_enabled',
                     state |-> [done |-> FALSE, cancelled |-> FALSE,
                                last_mouse_x |-> None],
                     line_artists |-> EmptyArray, label_artists |-> EmptyArray,
                     fig_open |-> TRUE])} :
                        SetCtl(c)
            /\ UNCHANGED outputs

\* Region-select events: every pair of event keys on the rectangle around the
\* whole plot, and with the modifier held at the press every pair of corners,
\* a corner being None when that end of the drag is outside the axes.
SelectEvents ==
    [click_key : EventKeys, release_key : EventKeys,
     click : {<<FHz[0], FloorDb>>}, release : {<<FHz[NumSamples - 1], Peak>>}]
    \cup [click_key : {<<"shift">>}, release_key : {None},
          click : {None} \cup Corners, release : {None} \cup Corners]

MotionEvents ==
    {[inaxes |-> FALSE, xdata |-> None]}
    \cup {[inaxes |-> TRUE, xdata |-> <<x>>] : x \in PointerXs}

\* The canvas dispatches an event to its handler.  plt.close(fig) disconnects
\* no handler, and events queued before it took effect are still dispatched.
OnSelect(e) ==
    /\ pc = "show"
    /\ \E c \in {on_select(Ctl, e)} : SetCtl(c)
    /\ UNCHANGED <<pc, inputs, overlays_enabled, outputs, processed, call>>

OnMotion(ev) ==
    /\ pc = "show"
    /\ \E c \in {on_motion(Ctl, ev)} : SetCtl(c)
    /\ UNCHANGED <<pc, inputs, overlays_enabled, outputs, processed, call>>

OnKeyPress(key) ==
    /\ pc = "show"
    /\ \E c \in on_key_press(Ctl, key) : SetCtl(c)
    /\ processed' = processed \cup
            {a \in {"commit", "cancel"} : picker_keymap[a] = key}
    /\ UNCHANGED <<pc, inputs, overlays_enabled, outputs, call>>

\* The user closes the window with the window manager.
WindowClosed ==
    /\ pc = "show"
    /\ fig_open
    /\ fig_open' = FALSE
    /\ UNCHANGED <<pc, inputs, overlays_enabled, selected_idx, current_domain,
                   current_mag, overlays_visible, state, line_artists,
                   label_artists, outputs,
                   processed, call>>

\* artifacts.write_selection_json: the document dumped to the JSON file.
write_selection_json(sel, domain) ==
    [schema_version |-> "1",
     selected_hz |-> sel.selected_hz,
     selected_idx |-> sel.selected_idx,
     settings |-> sel.settings,
     spectrum_meta |-> sel.meta,
     display_domain |-> domain]

\* Mutant: the document records the domain the session displays at its end.
write_artifacts_session_domain(sel, domain) ==
    [artifacts |-> {"png", "json"},
     payload |-> <<write_selection_json(sel, current_domain)>>]

\* artifacts.write_artifacts: the figure and the document are written.
write_artifacts(sel, domain) ==
    [artifacts |-> {"png", "json"},
     payload |-> <<write_selection_json(sel, domain)>>]

\* Mutant: an empty selection is reported like a cancellation.
pick_freqs_return_empty_cancels(spec, result, art_dir) ==
    IF result.cancelled \/ result.selected_idx = {}
    THEN [outcome |-> "PickerCancelled", selection |-> None, artifacts |-> {},
          payload |-> None]
    ELSE LET built == _build_selection(spec, result.selected_idx, settings[1])
             written == IF art_dir # None
                        THEN write_artifacts(built, spec.display_domain)
                        ELSE [artifacts |-> {}, payload |-> None]
         IN  [outcome |-> "Selection", selection |-> <<built>>,
              artifacts |-> written.artifacts, payload |-> written.payload]

\* Mutant: the cancelled flag is tested after the selection is built and the
\* artifacts are written.
pick_freqs_return_build_first(spec, result, art_dir) ==
    LET built == _build_selection(spec, result.selected_idx, settings[1])
        written == IF art_dir # None
                   THEN write_artifacts(built, spec.display_domain)
                   ELSE [artifacts |-> {}, payload |-> None]
    IN  [outcome |-> IF result.cancelled THEN "PickerCancelled" ELSE "Selection",
         selection |-> <<built>>,
         artifacts |-> written.artifacts, payload |-> written.payload]

\* pick_freqs_matplotlib from the return of run_picker to its end.
pick_freqs_return(spec, result, art_dir) ==
    IF result.cancelled
    THEN [outcome |-> "PickerCancelled", selection |-> None, artifacts |-> {},
          payload |-> None]
    ELSE LET built == _build_selection(spec, result.selected_idx, settings[1])
             written == IF art_dir # None
                        THEN write_artifacts(built, spec.display_domain)
                        ELSE [artifacts |-> {}, payload |-> None]
         IN  [outcome |-> "Selection", selection |-> <<built>>,
              artifacts |-> written.artifacts, payload |-> written.payload]

\* plt.show(block=True) returns once the figure is closed; run_picker returns
\* its PickerResult and the caller finishes.
ShowReturns ==
    /\ pc = "show"
    /\ ~fig_open
    /\ pc' = "returned"
    /\ LET result == [selected_idx |-> selected_idx, cancelled |-> state.cancelled]
       IN  IF entry = "run_picker"
           THEN /\ outcome' = "PickerResult"
                /\ UNCHANGED <<selection, artifacts, payload>>
           ELSE LET r == pick_freqs_return(spectrum[1], result, artifact_dir)
                IN  /\ outcome' = r.outcome
                    /\ selection' = r.selection
                    /\ artifacts' = r.artifacts
                    /\ payload' = r.payload
    /\ UNCHANGED <<inputs, controller, processed, call>>

\* A program calls a function of core.py by itself, as the tests do: the
\* call's arguments and what it returned or raised.
LibraryCall(name, record) ==
    /\ pc = "idle"
    /\ pc' = "returned"
    /\ entry' = name
    /\ call' = <<record>>
    /\ outcome' = IF record.ret.error # "" THEN "ValueError" ELSE "returned"
    /\ UNCHANGED <<spectrum, artifact_dir, f_hz, mag, display_domain,
                   original_offset, picker_keymap, context, settings, heap,
                   controller, selection, artifacts, payload, processed>>

\* Frequencies with gaps of four between the samples.
GappedFHz == [i \in 0..(NumSamples - 1) |-> 4 * i + 1]

\* The arrays of tests/test_snap.py, frequencies and targets in tenths of a
\* hertz.
TestSnapFHz == [i \in 0..9 |-> 10 * i]
TestSnapMag ==
    [i \in 0..9 |-> <<0, 1, 2, 5, 1, 0, 1, 6, 2, 1>>[i + 1]]
TestSnapTargets == {22, 72}
TestSnapWindow == 30

\* Arrays snap_index is called with: the spectra's, a single sample, gapped
\* frequencies.
SnapArrays ==
    {[f |-> FHz, m |-> m] : m \in LinearMags}
    \cup {[f |-> Slice(FHz, 0, 1), m |-> Slice(GappedFHz, 0, 1)]}
    \cup {[f |-> GappedFHz, m |-> m] : m \in LinearMags}

SnapTargets == 0..(4 * NumSamples)
SnapWindows == (0 - 1)..2

SnapCalls ==
    {[f |-> a.f, m |-> a.m, target_hz |-> t, window_hz |-> w] :
        a \in SnapArrays, t \in SnapTargets, w \in SnapWindows}
    \cup {[f |-> TestSnapFHz, m |-> TestSnapMag, target_hz |-> t,
           window_hz |-> TestSnapWindow] : t \in TestSnapTargets}

SnapIndex(a) ==
    LibraryCall("snap_index",
        [args |-> a, ret |-> snap_index(a.f, a.m, a.target_hz, a.window_hz)])

\* crop_to_window called with every window of bounds around the samples.
CropCalls ==
    {[f |-> FHz, m |-> m, xlim |-> <<fmin, fmax>>] :
        m \in LinearMags, fmin \in 0..(NumSamples + 1),
        fmax \in 0..(NumSamples + 1)}

CropToWindow(a) ==
    LibraryCall("crop_to_window",
        [args |-> a, ret |-> crop_to_window(a.f, a.m, a.xlim)])

\* Indices toggle_index is called with: the samples' and one beyond.
ToggleIndices == 0..NumSamples

\* toggle_index called on a set, as tests/test_toggle.py calls it.
ToggleIndex(selected, index) ==
    LibraryCall("toggle_index",
        [args |-> [selected |-> selected, index |-> index],
         ret |-> [error |-> "", selected |-> toggle_index(selected, index)]])

\* toggle_index called again on the set the previous call left.
ToggleIndexAgain(index) ==
    /\ pc = "returned"
    /\ entry = "toggle_index"
    /\ call' = <<[args |-> [selected |-> call[1].ret.selected, index |-> index],
                  ret |-> [error |-> "",
                           selected |-> toggle_index(call[1].ret.selected, index)]]>>
    /\ UNCHANGED <<pc, inputs, controller, outputs, processed>>

\* A one-dimensional numpy array of finite values.
Array1D(values) ==
    [ndarray |-> TRUE, ndim |-> 1, values |-> values, nonfinite |-> {}]

\* The frequencies 0, step, 2 step, ... with the sample at index i replaced
\* by v.
FreqsWith(n, i, v) == [k \in 0..(n - 1) |-> IF k = i THEN v ELSE k]

\* f_hz arguments of Spectrum(...): the model's frequencies, one sample, none,
\* [0, 2, 1] and [0, 1, 1] of the spec, an inf element, two dimensions, a
\* list.
FreqArgs ==
    {Array1D(FHz), Array1D(Slice(FHz, 0, 1)), Array1D(EmptyArray),
     Array1D(FreqsWith(NumSamples, 1, 2)),
     Array1D(FreqsWith(NumSamples, NumSamples - 1, NumSamples - 2)),
     [Array1D(FHz) EXCEPT !.nonfinite = {NumSamples - 1}],
     [Array1D(FHz) EXCEPT !.ndim = 2],
     [Array1D(FHz) EXCEPT !.ndarray = FALSE]}

\* mag arguments: as long as the frequencies, one sample, none, a nan
\* element, two dimensions, a list.
MagArgs ==
    {Array1D(GappedFHz), Array1D(Slice(GappedFHz, 0, 1)), Array1D(EmptyArray),
     [Array1D(GappedFHz) EXCEPT !.nonfinite = {0}],
     [Array1D(GappedFHz) EXCEPT !.ndim = 2],
     [Array1D(GappedFHz) EXCEPT !.ndarray = FALSE]}

SpectrumArgs ==
    [f_hz : FreqArgs, mag : MagArgs, display_domain : DISPLAY_DOMAINS \cup {"log"}]

\* Spectrum(f_hz, mag, display_domain): __post_init__ validates.
SpectrumInit(a) ==
    LibraryCall("Spectrum", [args |-> a, ret |-> validate_spectrum(a)])

\* The 11 samples of tests/test_context_overlays.py.
TestContextFHz == [i \in 0..10 |-> i]

\* A series of n samples.
SeriesOfLen(n) == [i \in 0..(n - 1) |-> 0]

\* Lengths of overlay series: the model's spectrum, one less, the tests' 11
\* and 5.
SeriesLens == {NumSamples, NumSamples - 1, 11, 5}

\* Contexts validate_context is called with: none, one without series, one
\* series of any name and length, two series.
ContextArgs ==
    {None, <<EmptyArray>>}
        \cup {<<[n \in {OverlaySeries[k]} |-> SeriesOfLen(l)]>> :
                 k \in DOMAIN OverlaySeries, l \in SeriesLens}
        \cup {<<[n \in {"mean", "p90"} |->
                    IF n = "mean" THEN SeriesOfLen(l1) ELSE SeriesOfLen(l2)]>> :
                 l1 \in SeriesLens, l2 \in SeriesLens}

ContextCalls == [f : {FHz, TestContextFHz}, context : ContextArgs]

ValidateContext(a) ==
    LibraryCall("validate_context",
                [args |-> a, ret |-> validate_context(a.f, a.context)])

\* Tolerances and spacings effective_snap_hz is called with, in tenths of a
\* hertz: 0.5 and 1.0 of tests/test_snap.py among them.
UserSnaps == {-1, 0, 1, 5, 29, 30, 31, 60, 61}
Spacings == {0, 1, 10, 20}

EffectiveSnapHz(u, d) ==
    LibraryCall("effective_snap_hz",
                [args |-> [user_snap_hz |-> u, df_hz |-> d],
                 ret |-> effective_snap_hz(u, d)])

\* The array with the elements of a tuple.
ArrayOf(t) == [i \in 0..(Len(t) - 1) |-> t[i + 1]]

\* Frequencies compute_df_hz is called with, in tenths of a hertz: the
\* model's, no sample, one sample, [0, 1, 2, 3, 4] in hertz, and uneven
\* spacings with an even and with an odd number of differences.
DfArrays ==
    {FHz, GappedFHz, EmptyArray, Slice(FHz, 0, 1),
     [i \in 0..4 |-> 10 * i],
     ArrayOf(<<0, 10, 30>>), ArrayOf(<<0, 10, 20, 100>>),
     ArrayOf(<<0, 30, 40, 60>>), ArrayOf(<<0, 10, 30, 40, 100>>)}

ComputeDfHz(f) ==
    LibraryCall("compute_df_hz", [args |-> [f_hz |-> f], ret |-> compute_df_hz(f)])

\* What the calling program does to the metadata it gave: add a key, remove
\* a key, replace the value of a key, append to the list held under a key.
MetaOps == {"add", "remove", "replace", "nested"}

\* The calling program mutates the metadata of its Spectrum after
\* pick_freqs_matplotlib has returned the Selection.
MutateMeta(op) ==
    /\ pc = "returned"
    /\ entry = "pick_freqs_matplotlib"
    /\ selection # None
    /\ spectrum[1].meta # None
    /\ heap = InitialHeap
    /\ LET d == spectrum[1].meta[1]
           old == heap[d]
       IN  heap' =
            CASE op = "add" ->
                    [heap EXCEPT ![d] = [key \in DOMAIN old \cup {"extra"} |->
                        IF key \in DOMAIN old THEN old[key] ELSE "str1"]]
              [] op = "remove" ->
                    [heap EXCEPT ![d] = [key \in DOMAIN old \ {"source"} |-> old[key]]]
              [] op = "replace" ->
                    [heap EXCEPT ![d] = [old EXCEPT !["tags"] = "str1"]]
              [] OTHER ->
                    [heap EXCEPT ![old["tags"]] = Append(@, "b")]
    /\ UNCHANGED <<pc, entry, spectrum, artifact_dir, f_hz, mag, display_domain,
                   original_offset, picker_keymap, context, settings,
                   controller, outputs, processed, call>>

Next ==
    \/ \E a \in PickCalls :
            PickFreqsMatplotlib(a.spectrum, a.user_snap_hz, a.art, a.xlim,
                                a.crop_to_xlim, a.keymap)
    \/ \E spec \in DirectSpectra, ctx \in {{}, {"mean"}} :
            RunPickerDirect(spec, FULL_KEYMAP, ctx)
    \/ RunPickerStart
    \/ \E e \in SelectEvents : OnSelect(e)
    \/ \E ev \in MotionEvents : OnMotion(ev)
    \/ \E key \in KeyInputs : OnKeyPress(key)
    \/ WindowClosed
    \/ ShowReturns
    \/ \E a \in SnapCalls : SnapIndex(a)
    \/ \E a \in CropCalls : CropToWindow(a)
    \/ \E selected \in SUBSET ToggleIndices, index \in ToggleIndices :
            ToggleIndex(selected, index)
    \/ \E index \in ToggleIndices : ToggleIndexAgain(index)
    \/ \E op \in MetaOps : MutateMeta(op)
    \/ \E a \in SpectrumArgs : SpectrumInit(a)
    \/ \E a \in ContextCalls : ValidateContext(a)
    \/ \E u \in UserSnaps, d \in Spacings : EffectiveSnapHz(u, d)
    \/ \E f \in DfArrays : ComputeDfHz(f)

Spec == Init /\ [][Next]_vars

\* ---------------------------------------------------------------- claims
Active == pc = "show" /\ fig_open /\ ~state.done /\ ~state.cancelled

\* The UI loop of a pick_freqs_matplotlib call has ended and the call with it.
PickEnded ==
    /\ pc = "returned"
    /\ entry = "pick_freqs_matplotlib"
    /\ outcome \notin {"ValueError", "KeyError"}

\* C1: once the controller has processed a Commit or a Cancel key, no later
\* gesture changes the selection set, the display domain, the
\* overlay-visibility flag or the session outcome.
C1_NoGestureAfterTerminal ==
    [][(pc = "show" /\ pc' = "show" /\ processed # {}) =>
        /\ selected_idx' = selected_idx
        /\ current_domain' = current_domain
        /\ overlays_visible' = overlays_visible
        /\ state'.done = state.done
        /\ state'.cancelled = state.cancelled]_vars

\* C2: the session is reported as cancelled if and only if a Cancel key press
\* was dispatched, and a session ended by Commit alone with nothing selected
\* returns a Selection with empty selected_idx and selected_hz.
C2_CancelledIffCancelKey ==
    /\ state.cancelled <=> ("cancel" \in processed)
    /\ PickEnded =>
        /\ (outcome = "PickerCancelled") <=> ("cancel" \in processed)
        /\ (processed = {"commit"} /\ selected_idx = {}) =>
            /\ outcome = "Selection"
            /\ selection # None
            /\ selection[1].selected_hz = EmptyArray
            /\ selection[1].selected_idx = EmptyArray

C2_Witness ==
    /\ PickEnded
    /\ processed = {"commit"}
    /\ selected_idx = {}
    /\ outcome = "Selection"

\* C3: when the controller's result is cancelled, pick_freqs_matplotlib raises
\* PickerCancelled, builds no Selection and writes no artifact, whatever had
\* been selected.
C3_CancelSkipsAssembly ==
    (PickEnded /\ state.cancelled) =>
        /\ outcome = "PickerCancelled"
        /\ selection = None
        /\ artifacts = {}

C3_Witness ==
    /\ PickEnded
    /\ state.cancelled
    /\ selected_idx # {}
    /\ artifact_dir # None
    /\ outcome = "PickerCancelled"

\* C4: a Selection is built only for a session in which a Commit key press was
\* dispatched; a session whose UI loop ended without Commit or Cancel yields
\* none.
C4_SelectionOnlyAtCommit ==
    selection # None => "commit" \in processed

\* The claims' reading of a region-select event: the modifier is held at the
\* press or at the release, and both corners are in data coordinates.
HoldsModifier(event_key) == event_key \in {<<"shift">>, <<"ctrl", "shift">>}

Gated(e) ==
    /\ HoldsModifier(e.click_key) \/ HoldsModifier(e.release_key)
    /\ e.click # None
    /\ e.release # None

\* The view samples inside the rectangle of e, by frequency and displayed
\* magnitude.
InRect(e) ==
    {i \in DOMAIN f_hz :
        /\ \E xa \in {e.click[1], e.release[1]} : xa <= f_hz[i]
        /\ \E xb \in {e.click[1], e.release[1]} : f_hz[i] <= xb
        /\ \E ya \in {e.click[2], e.release[2]} : ya <= current_mag[i]
        /\ \E yb \in {e.click[2], e.release[2]} : current_mag[i] <= yb}

\* The lowest index among the samples of S of maximum displayed magnitude.
LowestMax(S) ==
    CHOOSE i \in S :
        /\ \A j \in S : current_mag[j] <= current_mag[i]
        /\ \A j \in S : current_mag[j] = current_mag[i] => i <= j

SymDiff(A, B) == (A \ B) \cup (B \ A)

\* C5: a region-select with the modifier held and both corners in data
\* coordinates leaves the selection unchanged when no view sample is inside the
\* rectangle, and otherwise toggles exactly offset + i*, i* the lowest-index
\* sample of maximum displayed magnitude inside; a step of the session that
\* changes the set without emptying it toggles one index of the view.
C5_SelectTogglesMaxInRect ==
    /\ [](pc = "show" =>
            \A e \in SelectEvents : Gated(e) =>
                LET post == on_select(Ctl, e)
                IN  IF InRect(e) = {}
                    THEN post.selected_idx = selected_idx
                    ELSE SymDiff(post.selected_idx, selected_idx)
                            = {original_offset + LowestMax(InRect(e))})
    /\ [][(pc = "show" /\ pc' = "show" /\ selected_idx' # selected_idx
                /\ selected_idx' # {}) =>
            \E i \in DOMAIN f_hz :
                SymDiff(selected_idx', selected_idx) = {original_offset + i}]_vars

\* A cropped view after a domain toggle, with a rectangle that holds two
\* samples of equal displayed magnitude, the first of them selected.
C5_Witness ==
    /\ pc = "show"
    /\ original_offset > 0
    /\ current_domain # display_domain
    /\ \E e \in SelectEvents :
        /\ Gated(e)
        /\ Cardinality(InRect(e)) >= 2
        /\ \A i, j \in InRect(e) : current_mag[i] = current_mag[j]
        /\ selected_idx = {original_offset + LowestMax(InRect(e))}

\* C6: a region-select with the modifier at neither the press nor the release,
\* or with a corner outside the plot area, changes neither the selection set,
\* the display domain, the overlay-visibility flag nor the terminal state.
C6_UngatedSelectIsNoOp ==
    pc = "show" =>
        \A e \in SelectEvents : ~Gated(e) =>
            LET post == on_select(Ctl, e)
            IN  /\ post.selected_idx = selected_idx
                /\ post.current_domain = current_domain
                /\ post.overlays_visible = overlays_visible
                /\ post.state.done = state.done
                /\ post.state.cancelled = state.cancelled
                /\ post.fig_open = fig_open

\* An active session with a selection, and a drag without the modifier around
\* samples.
C6_Witness ==
    /\ Active
    /\ selected_idx # {}
    /\ overlays_visible
    /\ \E e \in SelectEvents :
        /\ ~HoldsModifier(e.click_key) /\ ~HoldsModifier(e.release_key)
        /\ e.click_key # None
        /\ e.click # None /\ e.release # None
        /\ InRect(e) # {}

StaysActive(post) ==
    post.fig_open /\ ~post.state.done /\ ~post.state.cancelled

\* C7: the toggle-domain key flips the display domain between linear and dB,
\* a second press restores it, the selection set is unchanged and the session
\* stays active.
C7_ToggleDomainKeepsSelection ==
    Active =>
        \A post \in on_key_press(Ctl, picker_keymap["toggle_scale"]) :
            /\ post.current_domain \in DISPLAY_DOMAINS \ {current_domain}
            /\ post.selected_idx = selected_idx
            /\ StaysActive(post)
            /\ \A again \in on_key_press(post, picker_keymap["toggle_scale"]) :
                /\ again.current_domain = current_domain
                /\ again.selected_idx = selected_idx

\* The domain has been toggled away from the stored one with indices selected.
C7_Witness ==
    /\ Active
    /\ Cardinality(selected_idx) >= 2
    /\ current_domain # display_domain
    /\ current_domain \in DISPLAY_DOMAINS

\* The frequencies the absolute indices refer to.
FullFHz == IF entry = "pick_freqs_matplotlib" THEN spectrum[1].f_hz ELSE f_hz
FullMag == IF entry = "pick_freqs_matplotlib" THEN spectrum[1].mag ELSE mag

ViewRange == original_offset..(original_offset + Size(f_hz) - 1)

\* C8: with a crop window of offset o and n samples, every index a gesture
\* inserts or removes is a view-local index + o, the selection set stays within
\* o..o+n-1, and a selected index less o is the view-local index of the same
\* sample; no step of the session inserts or removes an index outside
\* o..o+n-1.
C8_SelectionInAbsoluteCoordinates ==
    /\ []((pc \in {"show", "returned"} /\ outcome \notin {"ValueError", "KeyError"}) =>
            /\ selected_idx \subseteq ViewRange
            /\ \A a \in selected_idx :
                /\ a - original_offset \in DOMAIN f_hz
                /\ f_hz[a - original_offset] = FullFHz[a]
                /\ mag[a - original_offset] = FullMag[a]
            /\ pc = "show" =>
                /\ \A e \in SelectEvents :
                    SymDiff(on_select(Ctl, e).selected_idx, selected_idx)
                        \subseteq ViewRange
                /\ \A key \in KeyInputs : \A post \in on_key_press(Ctl, key) :
                    SymDiff(post.selected_idx, selected_idx) \subseteq ViewRange)
    /\ [][(pc = "show" /\ pc' = "show") =>
            SymDiff(selected_idx', selected_idx) \subseteq ViewRange]_vars

\* A cropped view that starts after the first sample, with its first sample
\* selected.
C8_Witness ==
    /\ pc = "show"
    /\ original_offset > 0
    /\ Size(f_hz) < Size(FullFHz)
    /\ original_offset \in selected_idx

\* C9: the delete-nearest key removes exactly one selected index, one whose
\* frequency is nearest to the recorded pointer frequency, and adds none; with
\* nothing selected or no pointer frequency recorded the selection set is
\* unchanged.
C9_DeleteNearest ==
    pc = "show" =>
        LET posts == on_key_press(Ctl, picker_keymap["delete_nearest"])
        IN  /\ posts # {}
            /\ IF selected_idx # {} /\ state.last_mouse_x # None
               THEN \A post \in posts : \E k \in selected_idx :
                        /\ post.selected_idx = selected_idx \ {k}
                        /\ \A j \in selected_idx :
                            Abs(FullFHz[k] - state.last_mouse_x[1])
                                <= Abs(FullFHz[j] - state.last_mouse_x[1])
               ELSE \A post \in posts : post.selected_idx = selected_idx

\* Several indices selected, a pointer frequency recorded, and the index the
\* key removes is not the lowest selected one.
C9_Witness ==
    /\ pc = "show"
    /\ Cardinality(selected_idx) >= 2
    /\ state.last_mouse_x # None
    /\ \E post \in on_key_press(Ctl, picker_keymap["delete_nearest"]) :
        \E k \in selected_idx :
            /\ post.selected_idx = selected_idx \ {k}
            /\ \E j \in selected_idx : j < k

\* C10: the Clear key empties the selection set from any active state and
\* leaves the display domain and the overlay-visibility flag unchanged; the
\* session stays active.
C10_ClearEmptiesSelection ==
    Active =>
        \A post \in on_key_press(Ctl, picker_keymap["clear"]) :
            /\ post.selected_idx = {}
            /\ post.current_domain = current_domain
            /\ post.overlays_visible = overlays_visible
            /\ StaysActive(post)

\* An active session with a selection, the domain toggled and the overlays
\* shown.
C10_Witness ==
    /\ Active
    /\ Cardinality(selected_idx) >= 2
    /\ current_domain # display_domain
    /\ overlays_visible

\* The series of the overlay context bound to the session.
BoundSeries == IF context = None THEN {} ELSE context[1]

\* C11: the toggle-overlays key flips the overlay-visibility flag if and only
\* if the bound overlay context has at least one series; with no context or a
\* context without series the flag is false for the whole session; the key
\* changes neither the selection set nor the display domain.
C11_ToggleOverlaysNeedsSeries ==
    pc = "show" =>
        /\ BoundSeries = {} => ~overlays_visible
        /\ \A post \in on_key_press(Ctl, picker_keymap["toggle_overlays"]) :
            /\ (post.overlays_visible # overlays_visible) <=> (BoundSeries # {})
            /\ post.selected_idx = selected_idx
            /\ post.current_domain = current_domain

\* A session with a series bound in which the key has hidden the overlays,
\* with indices selected.
C11_Witness ==
    /\ Active
    /\ BoundSeries # {}
    /\ ~overlays_visible
    /\ selected_idx # {}

\* The actions the controller looks up in the key-binding map.
RequiredActions ==
    {"commit", "cancel", "clear", "help", "delete_nearest", "toggle_scale",
     "toggle_overlays"}

\* C12: the key-binding map pick_freqs_matplotlib hands to the controller,
\* PICKER_KEYMAP, binds all seven required actions, so no lookup of the
\* controller fails.
C12_KeymapBindsRequiredActions ==
    (entry = "pick_freqs_matplotlib" /\ picker_keymap = PICKER_KEYMAP) =>
        /\ RequiredActions \subseteq DOMAIN picker_keymap
        /\ outcome # "KeyError"

\* The call of a library function that has returned or raised.
Called(name) == pc = "returned" /\ entry = name /\ call # None

\* The samples within [target - window, target + window], both ends included.
InSnapWindow(a) ==
    {i \in DOMAIN a.f :
        a.target_hz - a.window_hz <= a.f[i] /\ a.f[i] <= a.target_hz + a.window_hz}

\* C13: for window > 0 and some sample within target-window <= f <=
\* target+window, snap_index returns the absolute index of a maximum-magnitude
\* sample among those samples, the lowest index among tied maxima; on the
\* arrays of the spec's example it returns 3 for target 2.2 and 7 for 7.2.
C13_SnapReturnsWindowMaximum ==
    Called("snap_index") =>
        LET a == call[1].args
            ret == call[1].ret
            inside == InSnapWindow(a)
        IN  /\ (a.window_hz > 0 /\ inside # {}) =>
                /\ ret.error = ""
                /\ ret.index \in inside
                /\ \A j \in inside : a.m[j] <= a.m[ret.index]
                /\ \A j \in inside : a.m[j] = a.m[ret.index] => ret.index <= j
            /\ (a.f = TestSnapFHz /\ a.target_hz = 22) => ret.index = 3
            /\ (a.f = TestSnapFHz /\ a.target_hz = 72) => ret.index = 7

\* A window that starts after the first sample, with its maximum after its
\* first sample.
C13_Witness ==
    /\ Called("snap_index")
    /\ call[1].args.window_hz > 0
    /\ 0 \notin InSnapWindow(call[1].args)
    /\ \E i \in InSnapWindow(call[1].args) :
        /\ i < call[1].ret.index
        /\ call[1].args.m[i] < call[1].args.m[call[1].ret.index]

\* C14: for window > 0 snap_index never fails and returns an index in
\* [0, n-1]; with no sample within [target-window, target+window] the index
\* minimizes |f[i] - target|.  For window <= 0 it fails with the
\* invalid-parameter error.
C14_SnapTotalAndNearest ==
    Called("snap_index") =>
        LET a == call[1].args
            ret == call[1].ret
        IN  IF a.window_hz > 0
            THEN /\ ret.error = ""
                 /\ outcome = "returned"
                 /\ ret.index \in DOMAIN a.f
                 /\ InSnapWindow(a) = {} =>
                        \A j \in DOMAIN a.f :
                            Abs(a.f[ret.index] - a.target_hz)
                                <= Abs(a.f[j] - a.target_hz)
            ELSE /\ ret.error # ""
                 /\ outcome = "ValueError"

\* An empty window between two samples, the nearest sample not the first.
C14_Witness ==
    /\ Called("snap_index")
    /\ call[1].args.window_hz > 0
    /\ InSnapWindow(call[1].args) = {}
    /\ call[1].ret.index > 0
    /\ call[1].ret.index < Size(call[1].args.f) - 1

\* The samples with fmin <= f < fmax.
InHalfOpenWindow(a) ==
    {i \in DOMAIN a.f : a.xlim[1] <= a.f[i] /\ a.f[i] < a.xlim[2]}

\* C15: crop_to_window fails with the invalid-parameter error when
\* fmin >= fmax, fails with the empty-window error exactly when no sample has
\* fmin <= f < fmax, and otherwise retains exactly the samples with
\* fmin <= f < fmax.
C15_CropHalfOpenWindow ==
    Called("crop_to_window") =>
        LET a == call[1].args
            ret == call[1].ret
            inside == InHalfOpenWindow(a)
        IN  IF a.xlim[1] >= a.xlim[2]
            THEN ret.error = "ValueError: xlim must be (min, max) with min < max."
            ELSE IF inside = {}
            THEN ret.error = "ValueError: xlim does not include any spectrum samples."
            ELSE /\ ret.error = ""
                 /\ {ret.f_hz[i] : i \in DOMAIN ret.f_hz}
                        = {a.f[i] : i \in inside}

\* C16: on success crop_to_window returns a contiguous slice: offset is the
\* lowest index with f >= fmin, the first retained sample, and
\* cropped_freqs[i] = frequencies[offset + i] and cropped_mags[i] =
\* magnitudes[offset + i] for every view-local index i.
C16_CropContiguousSlice ==
    (Called("crop_to_window") /\ call[1].ret.error = "") =>
        LET a == call[1].args
            ret == call[1].ret
        IN  /\ ret.offset \in DOMAIN a.f
            /\ a.f[ret.offset] >= a.xlim[1]
            /\ \A j \in DOMAIN a.f : a.f[j] >= a.xlim[1] => ret.offset <= j
            /\ DOMAIN ret.f_hz = DOMAIN ret.mag
            /\ 0 \in DOMAIN ret.f_hz
            /\ \A i \in DOMAIN ret.f_hz :
                /\ ret.offset + i \in DOMAIN a.f
                /\ ret.f_hz[i] = a.f[ret.offset + i]
                /\ ret.mag[i] = a.m[ret.offset + i]
                /\ (ret.offset + i) - ret.offset = i

\* A window that starts at the second sample exactly and retains several
\* samples of different magnitudes.
C16_Witness ==
    /\ Called("crop_to_window")
    /\ call[1].ret.error = ""
    /\ call[1].ret.offset > 0
    /\ call[1].args.f[call[1].ret.offset] = call[1].args.xlim[1]
    /\ Size(call[1].ret.f_hz) >= 2
    /\ call[1].ret.mag[0] # call[1].ret.mag[1]

\* C17: toggle inserts the index if it is absent and removes it if it is
\* present, changes the membership of no other index, and a second toggle of
\* the same index restores the set exactly.
C17_ToggleIsInvolution ==
    /\ [](Called("toggle_index") =>
            LET before == call[1].args.selected
                index == call[1].args.index
                after == call[1].ret.selected
            IN  /\ (index \in after) <=> (index \notin before)
                /\ \A j \in (before \cup after) \ {index} :
                        (j \in after) <=> (j \in before))
    /\ [][(Called("toggle_index") /\ call' # call
                /\ call'[1].args.index = call[1].args.index) =>
            call'[1].ret.selected = call[1].args.selected]_vars

\* A second toggle of the same index has removed it again from a set with
\* other members.
C17_Witness ==
    /\ Called("toggle_index")
    /\ call[1].args.index \in call[1].args.selected
    /\ call[1].ret.selected # {}
    /\ call[1].ret.selected = call[1].args.selected \ {call[1].args.index}

\* pick_freqs_matplotlib has returned a Selection.
Built == PickEnded /\ outcome = "Selection" /\ selection # None

\* C18: build_selection returns selected_idx sorted ascending by frequency,
\* without duplicates, and selected_hz in the same order and of the same
\* length with selected_hz[j] = frequencies[selected_idx[j]], so selected_hz
\* is strictly ascending.
C18_SelectionSortedByFrequency ==
    Built =>
        LET sel == selection[1]
            f == spectrum[1].f_hz
        IN  /\ DOMAIN sel.selected_hz = DOMAIN sel.selected_idx
            /\ \A j \in DOMAIN sel.selected_idx :
                /\ sel.selected_idx[j] \in DOMAIN f
                /\ sel.selected_hz[j] = f[sel.selected_idx[j]]
            /\ \A j, k \in DOMAIN sel.selected_idx : j < k =>
                /\ sel.selected_idx[j] < sel.selected_idx[k]
                /\ sel.selected_hz[j] < sel.selected_hz[k]

\* A Selection of every sample of a cropped view.
C18_Witness ==
    /\ Built
    /\ original_offset > 0
    /\ Size(selection[1].selected_idx) >= 2
    /\ selection[1].selected_idx[0] = original_offset

\* C19: after a sequence of gestures ending in Commit the Selection's
\* selected_idx holds exactly the indices of the controller's final selection
\* set, each once; settings.df_hz is the bin spacing and
\* settings.effective_snap_hz the larger of user_snap_hz and three times it.
C19_CommitReturnsSelectionSet ==
    (Built /\ "commit" \in processed) =>
        LET sel == selection[1]
            spacing == spectrum[1].f_hz[1] - spectrum[1].f_hz[0]
        IN  /\ {sel.selected_idx[j] : j \in DOMAIN sel.selected_idx} = selected_idx
            /\ Size(sel.selected_idx) = Cardinality(selected_idx)
            /\ sel.settings.df_hz = spacing
            /\ sel.settings.effective_snap_hz >= sel.settings.user_snap_hz
            /\ sel.settings.effective_snap_hz >= 3 * spacing
            /\ sel.settings.effective_snap_hz
                    \in {sel.settings.user_snap_hz, 3 * spacing}

\* Two indices that are not neighbours were committed with a tolerance above
\* three bins.
C19_Witness ==
    /\ Built
    /\ "commit" \in processed
    /\ selected_idx = {0, 2}
    /\ selection[1].selected_idx[0] = 0
    /\ selection[1].selected_idx[1] = 2
    /\ selection[1].settings.effective_snap_hz = selection[1].settings.user_snap_hz
    /\ selection[1].settings.user_snap_hz > 3 * selection[1].settings.df_hz

\* What Selection.meta holds: its keys with the values they refer to.
SelectionMetaValue ==
    [key \in DOMAIN selection[1].meta |-> heap[selection[1].meta[key]]]

\* C20: Selection.meta is a copy by value of the spectrum metadata: once the
\* Selection is built, adding, removing or replacing a key of the source
\* metadata, or mutating a value nested in it, does not change Selection.meta;
\* a spectrum without metadata gives an empty meta map.
C20_MetaIsCopyByValue ==
    /\ []((Built /\ spectrum[1].meta = None) => DOMAIN selection[1].meta = {})
    /\ [][(Built /\ Built') => SelectionMetaValue' = SelectionMetaValue]_vars

\* What of the controller decides the selection: everything but the overlay
\* state.
SelectionState(c) == [c EXCEPT !.overlays_visible = FALSE]

\* The controller with the overlays shown instead of hidden, or hidden instead
\* of shown.
OtherOverlayState == [Ctl EXCEPT !.overlays_visible = ~@]

Is1D(a) == a.ndarray /\ a.ndim = 1

Mismatched(a) ==
    IF a.context = None THEN {}
    ELSE {n \in DOMAIN a.context[1] : Size(a.context[1][n]) # Size(a.f)}

\* C23: validate_context succeeds when the context is absent and when it is
\* present without series (then with the advisory); when present it fails
\* with the overlay-length-mismatch error if and only if some present series
\* is not as long as the frequencies, and the error names such a series, the
\* expected and the actual length: mean, 11 and 5 for a mean of 5 against 11
\* samples.
C23_ValidateContext ==
    Called("validate_context") =>
        LET a == call[1].args
            r == call[1].ret
        IN  /\ a.context = None => r.error = "" /\ ~r.warning
            /\ (a.context # None /\ DOMAIN a.context[1] = {}) =>
                    r.error = "" /\ r.warning /\ outcome = "returned"
            /\ (r.error = "OverlayLengthMismatch") <=> (Mismatched(a) # {})
            /\ (r.error = "") <=> (Mismatched(a) = {})
            /\ r.error # "" =>
                    /\ outcome # "returned"
                    /\ r.series \in Mismatched(a)
                    /\ r.expected = Size(a.f)
                    /\ r.actual = Size(a.context[1][r.series])
            /\ (/\ Size(a.f) = 11 /\ a.context # None
                /\ DOMAIN a.context[1] = {"mean"}
                /\ Size(a.context[1]["mean"]) = 5) =>
                    r.series = "mean" /\ r.expected = 11 /\ r.actual = 5

\* A mean of 5 samples was rejected against 11 frequencies.
C23_Witness ==
    /\ Called("validate_context")
    /\ Size(call[1].args.f) = 11
    /\ call[1].args.context # None
    /\ DOMAIN call[1].args.context[1] = {"mean"}
    /\ Size(call[1].args.context[1]["mean"]) = 5
    /\ call[1].ret.error = "OverlayLengthMismatch"

\* C24: effective_snap_hz fails with ValueError for a tolerance <= 0, and for
\* a positive tolerance u and a positive spacing d returns max(u, 3 d): one of
\* the two, at least u and at least 3 d; 3.0 for u = 0.5 and d = 1.0.
C24_EffectiveSnapIsMax ==
    Called("effective_snap_hz") =>
        LET u == call[1].args.user_snap_hz
            d == call[1].args.df_hz
            r == call[1].ret
        IN  /\ u <= 0 => r.error # "" /\ outcome = "ValueError"
            /\ (u > 0 /\ d > 0) =>
                    /\ r.error = "" /\ outcome = "returned"
                    /\ r.snap_hz \in {u, 3 * d}
                    /\ r.snap_hz >= u
                    /\ r.snap_hz >= 3 * d
            /\ (u = 5 /\ d = 10) => r.snap_hz = 30

\* A tolerance of 0.5 Hz on a spacing of 1.0 Hz gave 3.0 Hz.
C24_Witness ==
    /\ Called("effective_snap_hz")
    /\ call[1].args.user_snap_hz = 5
    /\ call[1].args.df_hz = 10
    /\ call[1].ret.error = ""
    /\ call[1].ret.snap_hz = 30

\* The consecutive differences of f.
Differences(f) == [i \in 0..(Size(f) - 2) |-> f[i + 1] - f[i]]

\* Twice the median of d: the sum of the smallest value with at least half of
\* the values at or below it and the largest value with at least half of the
\* values at or above it.
TwiceMedian(d) ==
    LET n == Size(d)
        h == (n + 1) \div 2
        vals == {d[i] : i \in DOMAIN d}
        lo == CHOOSE v \in vals :
                /\ Cardinality({i \in DOMAIN d : d[i] <= v}) >= h
                /\ \A w \in vals :
                    Cardinality({i \in DOMAIN d : d[i] <= w}) >= h => v <= w
        hi == CHOOSE v \in vals :
                /\ Cardinality({i \in DOMAIN d : d[i] >= v}) >= h
                /\ \A w \in vals :
                    Cardinality({i \in DOMAIN d : d[i] >= w}) >= h => v >= w
    IN  lo + hi

\* C25: compute_df_hz returns the median of the consecutive differences of
\* every strictly increasing sequence of at least two samples, 1.0 for
\* [0, 1, 2, 3, 4], also for uneven spacing, where the warning neither changes
\* the result nor ends the call; with fewer than two samples it fails with
\* ValueError.
C25_DfIsMedianSpacing ==
    Called("compute_df_hz") =>
        LET f == call[1].args.f_hz
            r == call[1].ret
            d == Differences(f)
        IN  /\ Size(f) < 2 => r.error # "" /\ outcome = "ValueError"
            /\ (Size(f) >= 2 /\ \A i \in DOMAIN d : d[i] > 0) =>
                    /\ r.error = "" /\ outcome = "returned"
                    /\ 2 * r.df_hz = TwiceMedian(d)
                    /\ r.warning <=> (\E i, j \in DOMAIN d : d[i] # d[j])
            /\ f = [i \in 0..4 |-> 10 * i] => r.df_hz = 10

\* An unevenly spaced sequence with two middle differences gave their mean,
\* with the warning.
C25_Witness ==
    /\ Called("compute_df_hz")
    /\ Size(call[1].args.f_hz) = 3
    /\ call[1].args.f_hz[2] - call[1].args.f_hz[1]
            # call[1].args.f_hz[1] - call[1].args.f_hz[0]
    /\ call[1].ret.error = ""
    /\ call[1].ret.warning
    /\ call[1].ret.df_hz = 15

\* C26: the display_domain of the document written at commit is the
\* Spectrum's display_domain, whatever domain the session displayed last and
\* however often it was toggled.
C26_DocumentKeepsStoredDomain ==
    (PickEnded /\ "json" \in artifacts) =>
        /\ payload # None
        /\ payload[1].display_domain = spectrum[1].display_domain
        /\ payload[1].display_domain \in DISPLAY_DOMAINS

\* A session that ended in the other domain than the Spectrum's wrote the
\* document with a non-empty selection.
C26_Witness ==
    /\ PickEnded
    /\ "json" \in artifacts
    /\ payload # None
    /\ current_domain # spectrum[1].display_domain
    /\ Size(payload[1].selected_idx) > 0

\* The stored magnitudes of the view in a display domain: as stored in the
\* Spectrum's own domain; in dB, 20 dB per decade below the largest stored
\* magnitude, the floor for a magnitude that is not positive; in linear units,
\* one decade per 20 dB.
StoredIn(domain) ==
    LET top == IF \E i \in DOMAIN mag : mag[i] > 0
               THEN CHOOSE v \in {mag[i] : i \in DOMAIN mag} :
                        \A j \in DOMAIN mag : mag[j] <= v
               ELSE 1
    IN  [i \in DOMAIN mag |->
            IF domain = display_domain THEN mag[i]
            ELSE IF domain = "dB"
                 THEN IF mag[i] <= 0 THEN 0 - DbPerDecade * FloorExp
                      ELSE 0 - DbPerDecade
                               * (CHOOSE k \in 0..MaxExp : mag[i] * Pow10(k) = top)
                 ELSE CHOOSE v \in 1..Peak :
                        \E k \in 0..MaxExp : v = Pow10(k) /\ DbPerDecade * k = mag[i]]

\* C27: while the session shows, the series region-select tests against is
\* the stored series converted to the current display domain, after any number
\* of domain toggles; no step of a call changes the stored series.
C27_DisplayedIsStoredConverted ==
    /\ [](pc = "show" =>
            /\ current_domain \in DISPLAY_DOMAINS
            /\ current_mag = StoredIn(current_domain)
            /\ \A post \in on_key_press(Ctl, picker_keymap["toggle_scale"]) :
                post.current_mag = StoredIn(post.current_domain))
    /\ [][pc # "idle" => mag' = mag /\ spectrum' = spectrum]_vars

\* A session back in the Spectrum's own domain after two toggles in a row is
\* not told apart from one never toggled: the witness is a session displaying
\* the other domain, with a converted series that differs from the stored one
\* and a sample selected.
C27_Witness ==
    /\ Active
    /\ current_domain # display_domain
    /\ current_mag # mag
    /\ selected_idx # {}

\* C28: two region-selects in a row with the same rectangle and the same
\* modifier state leave the selection set as it was before the first: the
\* second toggles the index the first toggled; no step of the session other
\* than one that empties the set changes it by more than one index.
C28_RepeatedSelectRestores ==
    /\ [](Active =>
            \A e \in SelectEvents :
                on_select(on_select(Ctl, e), e).selected_idx = selected_idx)
    /\ [][(pc = "show" /\ pc' = "show") =>
            \/ selected_idx' = {}
            \/ Cardinality(SymDiff(selected_idx', selected_idx)) <= 1]_vars

\* A region-select that deselects one of two selected samples, so that its
\* repetition selects it again.
C28_Witness ==
    /\ Active
    /\ Cardinality(selected_idx) >= 2
    /\ \E e \in SelectEvents :
        /\ on_select(Ctl, e).selected_idx # selected_idx
        /\ on_select(Ctl, e).selected_idx \subseteq selected_idx
        /\ on_select(on_select(Ctl, e), e).selected_idx = selected_idx

\* The frequencies an array of artists is drawn at.
DrawnAt(a) == {a[k] : k \in DOMAIN a}

\* C29: once the session shows and after every gesture, the marker lines and
\* their labels are as many as the selected indices, no two at one frequency,
\* at exactly the frequencies of the selected indices; the Selection of a
\* committed call lists the frequencies the figure marks.
C29_MarkersMatchSelection ==
    /\ (pc = "show" \/ PickEnded) =>
        /\ Size(line_artists) = Cardinality(selected_idx)
        /\ Size(label_artists) = Cardinality(selected_idx)
        /\ Cardinality(DrawnAt(line_artists)) = Size(line_artists)
        /\ DrawnAt(line_artists) = {FullFHz[i] : i \in selected_idx}
        /\ \A k \in DOMAIN line_artists : label_artists[k] = line_artists[k]
    /\ (PickEnded /\ selection # None) =>
        DrawnAt(line_artists) = DrawnAt(selection[1].selected_hz)

\* A cropped session in the other display domain marks two selected samples.
C29_Witness ==
    /\ Active
    /\ original_offset > 0
    /\ current_domain # display_domain
    /\ Cardinality(selected_idx) >= 2
    /\ Size(line_artists) = 2
    /\ Size(label_artists) = 2

====
